---------------------------- MODULE Spec2Model ----------------------------
(***************************************************************************)
(* Task lifecycle of the BluRay converter: the task table kept by the NAS  *)
(* (watcher/db_manager.py), the dispatcher cycle of the watcher            *)
(* (watcher/main.py), the webhook status receiver and the administrative   *)
(* routes of the NAS API (api/webhook.py, api/routes.py), the relocation   *)
(* collaborator (api/file_manager.py) and the worker that accepts one task *)
(* at a time and reports back over HTTP (worker/main.py, processor.py,     *)
(* nas_client.py).                                                         *)
(*                                                                         *)
(* The callers use the task store through awaited methods; the store under *)
(* src/ (DatabaseManager) provides create_task, get_pending_tasks,         *)
(* update_task_status, get_all_tasks, delete_task and cleanup_old_records. *)
(* The remaining store methods the callers use (get_task_details,          *)
(* increment_task_attempts, record_error, reset_task_attempts,             *)
(* get_tasks_by_status, get_failed_tasks_for_retry) have no definition     *)
(* under src/ and are modelled from the Task Store contract of spec.md     *)
(* section 4.1.  An awaited store call is modelled as the call.            *)
(***************************************************************************)
EXTENDS Integers, Sequences, FiniteSets, TLC

\* ------------------------------------------------------------------ bounds
AttemptsCap == 4        \* the model stops incrementing `attempts` here
MaxJobs == 2            \* background jobs alive in the worker process at once
MaxTaskId == 2          \* rows the tasks table hands out ids for

\* ------------------------------------------------------- program constants
MAX_CONCURRENT_TASKS == 1   \* watcher/main.py:29
MAX_RETRY_ATTEMPTS == 3     \* watcher/scanner.py:179
RETRY_THRESHOLD == 2        \* api/webhook.py:246  (task['attempts'] < 2)
NAS_CLIENT_RETRY_ATTEMPTS == 3  \* worker/nas_client.py:52
MAC_CLIENT_RETRY_ATTEMPTS == 3  \* watcher/mac_client.py:49

\* movie folders that appear in the raw directory: one disc for the per-task
\* behaviour, a pair of discs where two tasks meet
Movies == {"MovieA"}
MoviePair == {"MovieA", "MovieB"}

\* TaskStatus (watcher/db_manager.py:16-22)
PENDING == "pending"
SENT == "sent"
PROCESSING == "processing"
COMPLETED == "completed"
FAILED == "failed"
RETRYING == "retrying"
TaskStatus == {PENDING, SENT, PROCESSING, COMPLETED, FAILED, RETRYING}

\* values of tasks.error_message
NoError == "none"
WorkerError == "worker error"
NoTempFileError == "Post-processing error: No temp_file provided in completion update"
NotificationError == "Post-processing error: notification"
MoveFailedError == "Post-processing error: Failed to move processed file"

\* values of tasks.processing_started_at and tasks.processing_completed_at:
\* NULL, the time of the first write, the time of a later write
NotSet == "null"
FirstWrite == "first"
LaterWrite == "later"

\* values of tasks.updated_at: within the retention window of
\* cleanup_old_records, or before its cutoff date
Recent == "recent"
Old == "old"

\* StatusUpdateRequest.temp_file left out of a report
NoFile == ""

\* a job of the worker and the cancel route: not cancelled, cancelled with the
\* route's `failed` report applied by the NAS, cancelled with that report lost
NotCancelled == "no"
CancelReported == "reported"
CancelUnreported == "unreported"

\* values of tasks.priority that set_task_priority is called with (0..10)
Priorities == {0, 10}

\* a status value outside TaskStatus
UnknownStatus == "unknown"

\* what the worker's side gives to one delivery attempt of send_task: the
\* answer of process_video (200, or 429 when the processor is busy), another
\* HTTP status, or no answer (failed health check, connection error, timeout)
Accepted200 == "200"
Busy429 == "429"
ServerError == "500"
Unavailable == "unavailable"
Answers == {Accepted200, Busy429, ServerError, Unavailable}

\* how an operation ends for its caller: without error, with the HTTP error
\* of a route, with the ValueError of create_task; for a send_task call that
\* returned False, what its last attempt was given
Ok == "ok"
BadRequest == "400"
NotFound == "404"
DuplicateName == "ValueError"

VARIABLES
    tasks,              \* the tasks table: id |-> row
    next_id,            \* AUTOINCREMENT counter of the tasks table
    temp_files,         \* artifacts present in the BluRayTemp folder (by movie)
    relocation_called,  \* TRUE iff the last step invoked move_to_processed
    pending_batch,      \* process_pending_tasks: rows of the batch not yet handled
    sending,            \* process_pending_tasks: task whose send_task call is open (0: none)
    tasks_sent,         \* process_pending_tasks: its counter while the call is open, its
                        \* return value in the step it returns, 0 in every other step
    is_processing,      \* VideoProcessor.is_processing
    current_task,       \* VideoProcessor.current_task (task id, 0: None)
    jobs,               \* background jobs of the worker (process_task_background)
    progress_sends,     \* progress reports created by on_processing_progress, in flight
    result,             \* how the operation of the last step ended for its caller
    deleting,           \* delete_task route: task that passed the status check and
                        \* whose row deletion is still to run (0: none)
    telegram_ok,        \* TRUE iff the Telegram API takes the messages sent to it
    processing_tasks,   \* worker_shutdown_notification: <<ids>> read as processing
                        \* whose reset is still to run (<< >>: no sweep open)
    failed_reports      \* history: id |-> the `failed` reports applied to the task since
                        \* it was created or restarted (count), and whether a dispatch
                        \* failure, a retry cycle or a repeated delivery has changed its
                        \* attempts as well (other)

vars == <<tasks, next_id, temp_files, relocation_called, pending_batch, sending,
          is_processing, current_task, jobs, progress_sends, result, deleting,
          telegram_ok, processing_tasks, tasks_sent, failed_reports>>

watcherVars == <<pending_batch, sending>>
workerVars == <<is_processing, current_task, jobs, progress_sends>>

\* ------------------------------------------------------------- Task Store

\* one row of the tasks table (columns the lifecycle depends on)
TaskRow(name, prio) ==
    [movie_name |-> name, status |-> PENDING, priority |-> prio,
     attempts |-> 0, error_message |-> NoError,
     processing_started_at |-> NotSet, processing_completed_at |-> NotSet,
     updated_at |-> Recent]

\* DatabaseManager.create_task: UNIQUE(movie_name) makes a duplicate fail
NameExists(ts, name) == \E id \in DOMAIN ts : ts[id].movie_name = name

\* a store that replaces the row of the same name (INSERT OR REPLACE)
create_task_replacing(ts, nid, name, prio) ==
    [ok |-> TRUE,
     tasks |-> [id \in {i \in DOMAIN ts : ts[i].movie_name # name} \cup {nid} |->
                   IF id = nid THEN TaskRow(name, prio) ELSE ts[id]],
     next_id |-> nid + 1]

create_task(ts, nid, name, prio) ==
    IF NameExists(ts, name)
    THEN [ok |-> FALSE, tasks |-> ts, next_id |-> nid]
    ELSE [ok |-> TRUE,
          tasks |-> [id \in DOMAIN ts \cup {nid} |->
                        IF id = nid THEN TaskRow(name, prio) ELSE ts[id]],
          next_id |-> nid + 1]

\* datetime.now() written over a timestamp column
Stamp(old) == IF old = NotSet THEN FirstWrite ELSE LaterWrite

\* a store whose update_task_status clears the count when a task completes
update_task_status_clearing_count(ts, task_id, status) ==
    IF task_id \notin DOMAIN ts THEN ts
    ELSE [ts EXCEPT ![task_id].status = status,
                    ![task_id].updated_at = Recent,
                    ![task_id].processing_started_at =
                        IF status = PROCESSING THEN Stamp(@) ELSE @,
                    ![task_id].processing_completed_at =
                        IF status \in {COMPLETED, FAILED} THEN Stamp(@) ELSE @,
                    ![task_id].attempts =
                        IF status = RETRYING THEN @ + 1
                        ELSE IF status = COMPLETED THEN 0 ELSE @]

\* DatabaseManager.update_task_status: status is written, the timestamp that
\* goes with the new status is written, attempts is incremented when the new
\* status is RETRYING
update_task_status(ts, task_id, status) ==
    IF task_id \notin DOMAIN ts THEN ts
    ELSE [ts EXCEPT ![task_id].status = status,
                    ![task_id].updated_at = Recent,
                    ![task_id].processing_started_at =
                        IF status = PROCESSING THEN Stamp(@) ELSE @,
                    ![task_id].processing_completed_at =
                        IF status \in {COMPLETED, FAILED} THEN Stamp(@) ELSE @,
                    ![task_id].attempts =
                        IF status = RETRYING THEN @ + 1 ELSE @]

\* ORDER BY created_at ASC alone
Before_by_age(ts, a, b) == a < b

\* ORDER BY priority DESC, created_at ASC (ids grow with creation time)
Before(ts, a, b) ==
    \/ ts[a].priority > ts[b].priority
    \/ ts[a].priority = ts[b].priority /\ a < b

RECURSIVE OrderRows(_, _)
OrderRows(ts, ids) ==
    IF ids = {} THEN <<>>
    ELSE LET first == CHOOSE a \in ids : \A b \in ids \ {a} : Before(ts, a, b)
         IN  <<first>> \o OrderRows(ts, ids \ {first})

Take(seq, n) == SubSeq(seq, 1, IF Len(seq) < n THEN Len(seq) ELSE n)

\* a store that ignores the limit of the listing
get_pending_tasks_unlimited(ts, limit) ==
    OrderRows(ts, {id \in DOMAIN ts : ts[id].status = PENDING})

\* DatabaseManager.get_pending_tasks
get_pending_tasks(ts, limit) ==
    Take(OrderRows(ts, {id \in DOMAIN ts : ts[id].status = PENDING}), limit)

\* store methods used by the callers, modelled from spec.md 4.1
increment_task_attempts(ts, task_id) ==
    IF task_id \notin DOMAIN ts THEN ts
    ELSE [ts EXCEPT ![task_id].attempts = @ + 1]

reset_task_attempts(ts, task_id) ==
    IF task_id \notin DOMAIN ts THEN ts
    ELSE [ts EXCEPT ![task_id].attempts = 0]

record_error(ts, task_id, msg) ==
    IF task_id \notin DOMAIN ts THEN ts
    ELSE [ts EXCEPT ![task_id].error_message = msg]

set_processing_started(ts, task_id) ==
    IF task_id \notin DOMAIN ts THEN ts
    ELSE [ts EXCEPT ![task_id].processing_started_at =
                        IF @ = NotSet THEN FirstWrite ELSE @]

set_processing_completed(ts, task_id) ==
    IF task_id \notin DOMAIN ts THEN ts
    ELSE [ts EXCEPT ![task_id].processing_completed_at =
                        IF @ = NotSet THEN FirstWrite ELSE @]

update_task_priority(ts, task_id, priority) ==
    IF task_id \notin DOMAIN ts THEN ts
    ELSE [ts EXCEPT ![task_id].priority = priority]

\* DatabaseManager.delete_task: DELETE FROM tasks WHERE id = ?, whatever the status
delete_task(ts, task_id) == [id \in DOMAIN ts \ {task_id} |-> ts[id]]

\* a cleanup that goes by age alone
cleanup_old_records_of_any_status(ts) ==
    [id \in {i \in DOMAIN ts : ts[i].updated_at # Old} |-> ts[id]]

\* DatabaseManager.cleanup_old_records: DELETE FROM tasks WHERE status IN
\* ('completed', 'failed') AND updated_at < cutoff
cleanup_old_records(ts) ==
    [id \in {i \in DOMAIN ts : ~(ts[i].status \in {COMPLETED, FAILED}
                                    /\ ts[i].updated_at = Old)} |-> ts[id]]

get_tasks_by_status(ts, status) == {id \in DOMAIN ts : ts[id].status = status}

get_failed_tasks_for_retry(ts) ==
    {id \in DOMAIN ts : ts[id].status = FAILED /\ ts[id].attempts < MAX_RETRY_ATTEMPTS}

\* ------------------------------------------------------ NAS: file manager

\* FileManager.move_to_processed: False when the temp file is missing or the
\* move and the copy both fail (io_ok = FALSE); otherwise the file leaves temp
move_to_processed(temp, file, io_ok) ==
    IF file \notin temp THEN [success |-> FALSE, temp |-> temp]
    ELSE IF io_ok THEN [success |-> TRUE, temp |-> temp \ {file}]
    ELSE [success |-> FALSE, temp |-> temp]

\* ------------------------------------------------------- NAS: notifications

\* a notifier that lets the failure of a send out as an exception
send_message_raising(up) == [sent |-> up, raised |-> ~up]

\* TelegramNotifier.send_message (api/telegram_bot.py:50-91): every exception of
\* the attempts is caught, the result is True or False
send_message(up) == [sent |-> up, raised |-> FALSE]

\* ---------------------------------------------------- NAS: status receiver

\* a handler that notes the start time and leaves the status alone
handle_processing_status_keeping_status(ts, task, task_id) ==
    IF task.processing_started_at = NotSet
    THEN set_processing_started(ts, task_id)
    ELSE ts

\* handle_processing_status (api/webhook.py:119-143); task is the row read by
\* receive_status_update before the handler runs
handle_processing_status(ts, task, task_id) ==
    LET updated == update_task_status(ts, task_id, PROCESSING)
    IN  IF task.processing_started_at = NotSet
        THEN set_processing_started(updated, task_id)
        ELSE updated

\* the except branch of handle_completion_status (api/webhook.py:201-218)
completion_failed(ts, task_id, err) ==
    record_error(update_task_status(ts, task_id, FAILED), task_id, err)

\* handle_completion_status (api/webhook.py:146-218); moved is the result of
\* move_to_processed, consulted only when the report carries a temp_file; the
\* success notification is sent inside the try block, after the status is written
handle_completion_status(ts, task_id, has_temp_file, moved, up) ==
    IF ~has_temp_file THEN completion_failed(ts, task_id, NoTempFileError)
    ELSE IF ~moved THEN completion_failed(ts, task_id, MoveFailedError)
    ELSE LET done == set_processing_completed(
                         update_task_status(ts, task_id, COMPLETED), task_id)
         IN  IF send_message(up).raised
             THEN completion_failed(done, task_id, NotificationError)
             ELSE done

\* handle_failed_status (api/webhook.py:221-266); task is the row read by
\* receive_status_update before the handler runs
handle_failed_status(ts, task, task_id) ==
    LET failed == update_task_status(ts, task_id, FAILED)
        logged == record_error(failed, task_id, WorkerError)
        counted == increment_task_attempts(logged, task_id)
    IN  IF task.attempts < RETRY_THRESHOLD
        THEN update_task_status(update_task_status(counted, task_id, RETRYING),
                                task_id, PENDING)
        ELSE counted

\* a receiver that takes every status it does not know for `processing`
receive_status_update_lenient(ts, temp, task_id, status, temp_file, io_ok, up) ==
    IF task_id \notin DOMAIN ts
    THEN [tasks |-> ts, temp |-> temp, relocated |-> FALSE, code |-> NotFound]
    ELSE IF status = COMPLETED
    THEN LET moved == move_to_processed(temp, temp_file, io_ok)
         IN  [tasks |-> handle_completion_status(ts, task_id, temp_file # NoFile,
                                                 moved.success, up),
              temp |-> IF temp_file # NoFile THEN moved.temp ELSE temp,
              relocated |-> temp_file # NoFile, code |-> Ok]
    ELSE IF status = FAILED
    THEN [tasks |-> handle_failed_status(ts, ts[task_id], task_id),
          temp |-> temp, relocated |-> FALSE, code |-> Ok]
    ELSE [tasks |-> handle_processing_status(ts, ts[task_id], task_id),
          temp |-> temp, relocated |-> FALSE, code |-> Ok]

\* a receiver that does not look the task up: a report for a missing row is
\* answered like any other, and a `completed` one has its artifact relocated
receive_status_update_unchecked(ts, temp, task_id, status, temp_file, io_ok, up) ==
    IF status = PROCESSING
    THEN [tasks |-> IF task_id \in DOMAIN ts
                    THEN handle_processing_status(ts, ts[task_id], task_id) ELSE ts,
          temp |-> temp, relocated |-> FALSE, code |-> Ok]
    ELSE IF status = COMPLETED
    THEN LET moved == move_to_processed(temp, temp_file, io_ok)
         IN  [tasks |-> handle_completion_status(ts, task_id, temp_file # NoFile,
                                                 moved.success, up),
              temp |-> IF temp_file # NoFile THEN moved.temp ELSE temp,
              relocated |-> temp_file # NoFile, code |-> Ok]
    ELSE IF status = FAILED
    THEN [tasks |-> IF task_id \in DOMAIN ts
                    THEN handle_failed_status(ts, ts[task_id], task_id) ELSE ts,
          temp |-> temp, relocated |-> FALSE, code |-> Ok]
    ELSE [tasks |-> ts, temp |-> temp, relocated |-> FALSE, code |-> BadRequest]

\* receive_status_update (api/webhook.py:71-116) with the handler it runs:
\* what the report does to the table and the temp folder, whether
\* move_to_processed was invoked, and the HTTP status answered
receive_status_update(ts, temp, task_id, status, temp_file, io_ok, up) ==
    IF task_id \notin DOMAIN ts
    THEN [tasks |-> ts, temp |-> temp, relocated |-> FALSE, code |-> NotFound]
    ELSE IF status = PROCESSING
    THEN [tasks |-> handle_processing_status(ts, ts[task_id], task_id),
          temp |-> temp, relocated |-> FALSE, code |-> Ok]
    ELSE IF status = COMPLETED
    THEN LET moved == move_to_processed(temp, temp_file, io_ok)
         IN  [tasks |-> handle_completion_status(ts, task_id, temp_file # NoFile,
                                                 moved.success, up),
              temp |-> IF temp_file # NoFile THEN moved.temp ELSE temp,
              relocated |-> temp_file # NoFile, code |-> Ok]
    ELSE IF status = FAILED
    THEN [tasks |-> handle_failed_status(ts, ts[task_id], task_id),
          temp |-> temp, relocated |-> FALSE, code |-> Ok]
    ELSE [tasks |-> ts, temp |-> temp, relocated |-> FALSE, code |-> BadRequest]

\* the sweep of worker_shutdown_notification (api/webhook.py:298-305)
RECURSIVE reset_to_pending(_, _)
reset_to_pending(ts, ids) ==
    IF ids = {} THEN ts
    ELSE LET id == CHOOSE x \in ids : TRUE
         IN  reset_to_pending(update_task_status(ts, id, PENDING), ids \ {id})

shutdown_sweep(ts) == reset_to_pending(ts, get_tasks_by_status(ts, PROCESSING))

\* ------------------------------------------------------- watcher: scanner

\* a scanner that goes by the rows of the table alone
is_movie_already_processed_by_rows(ts, name, outputs) ==
    \E id \in DOMAIN ts :
        /\ ts[id].movie_name = name
        /\ \/ ts[id].status \in {COMPLETED, PROCESSING, SENT}
           \/ ts[id].status = FAILED /\ ts[id].attempts >= MAX_RETRY_ATTEMPTS

\* BluRayScanner.is_movie_already_processed (watcher/scanner.py:158-202);
\* the row with that name decides, a pending or retrying row decides nothing;
\* outputs are the names with a file <name>.mkv or <name>.mp4 in the
\* processed folder, consulted when no row has decided
is_movie_already_processed(ts, name, outputs) ==
    LET named == {id \in DOMAIN ts : ts[id].movie_name = name}
    IN  IF \E id \in named : ts[id].status \in {COMPLETED, PROCESSING, SENT, FAILED}
        THEN \E id \in named :
                 \/ ts[id].status \in {COMPLETED, PROCESSING, SENT}
                 \/ ts[id].status = FAILED /\ ts[id].attempts >= MAX_RETRY_ATTEMPTS
        ELSE name \in outputs

\* the creation loop of scan_and_process (watcher/main.py:96-111); raised says
\* whether a create_task call of the loop raised ValueError (caught at line 110)
RECURSIVE create_tasks_for(_, _, _, _)
create_tasks_for(ts, nid, names, raised) ==
    IF names = {} THEN [tasks |-> ts, next_id |-> nid, raised |-> raised]
    ELSE LET name == CHOOSE n \in names : TRUE
             made == create_task(ts, nid, name, 0)
         IN  create_tasks_for(made.tasks, made.next_id, names \ {name},
                              raised \/ ~made.ok)

\* the retry loop of retry_failed_tasks (watcher/main.py:184-195)
retry_one(ts, task_id) ==
    update_task_status(
        increment_task_attempts(update_task_status(ts, task_id, RETRYING), task_id),
        task_id, PENDING)

RECURSIVE retry_all(_, _)
retry_all(ts, ids) ==
    IF ids = {} THEN ts
    ELSE LET id == CHOOSE x \in ids : TRUE
         IN  retry_all(retry_one(ts, id), ids \ {id})

\* the retry loop when increment_task_attempts raises for the tasks in failing:
\* the except clause of the loop body logs the error and the loop goes on to
\* the next task (watcher/main.py:187-188, 194-195)
retry_one_raising(ts, task_id) == update_task_status(ts, task_id, RETRYING)

RECURSIVE retry_all_raising(_, _, _)
retry_all_raising(ts, ids, failing) ==
    IF ids = {} THEN ts
    ELSE LET id == CHOOSE x \in ids : TRUE
         IN  retry_all_raising(IF id \in failing THEN retry_one_raising(ts, id)
                                                 ELSE retry_one(ts, id),
                               ids \ {id}, failing)

\* every row stays within the attempts the model explores
WithinCap(ts) == \A id \in DOMAIN ts : ts[id].attempts <= AttemptsCap

\* what process_pending_tasks does when send_task returns False (lines 152-156)
dispatch_failed(ts, task_id) ==
    update_task_status(increment_task_attempts(ts, task_id), task_id, PENDING)

\* retry_failed_tasks (watcher/main.py:172-201)
retry_failed_tasks(ts) == retry_all(ts, get_failed_tasks_for_retry(ts))

\* retry_failed_tasks with a store in which increment_task_attempts raises for
\* the tasks in failing
retry_failed_tasks_raising(ts, failing) ==
    retry_all_raising(ts, get_failed_tasks_for_retry(ts), failing)

\* maintenance_tasks (watcher/main.py:203-221): the retention cleanup
maintenance_tasks(ts) == cleanup_old_records(ts)

\* scan_and_process (watcher/main.py:80-118): found is the raw directory
\* listing, outputs the names whose processed file the scanner finds
scan_and_process(ts, nid, found, outputs) ==
    create_tasks_for(ts, nid,
                     {n \in found : ~is_movie_already_processed(ts, n, outputs)},
                     FALSE)

\* ---------------------------------------------------------------- history
NoReports == [count |-> 0, other |-> FALSE]
OtherCauses == [count |-> 0, other |-> TRUE]

\* failed_reports over the rows of ts: new rows start with NoReports, the rows
\* in ids had their attempts changed by something else than a `failed` report
Track(fr, ts, ids) ==
    [id \in DOMAIN ts |->
        IF id \in ids THEN OtherCauses
        ELSE IF id \in DOMAIN fr THEN fr[id] ELSE NoReports]

\* ---------------------------------------------------------------- initial
Init ==
    /\ tasks = << >>
    /\ next_id = 1
    /\ temp_files = {}
    /\ relocation_called = FALSE
    /\ pending_batch = << >>
    /\ sending = 0
    /\ tasks_sent = 0
    /\ is_processing = FALSE
    /\ current_task = 0
    /\ jobs = {}
    /\ progress_sends = {}
    /\ result = Ok
    /\ deleting = 0
    /\ telegram_ok = TRUE
    /\ processing_tasks = << >>
    /\ failed_reports = << >>

\* ------------------------------------------------------ watcher: delivery

\* what the worker's side gives to the attempts one send_task call can make
AnswerSeqs == [1..MAC_CLIENT_RETRY_ATTEMPTS -> Answers]

\* a client that takes a busy answer for one more failed attempt
RECURSIVE send_task_from_retrying_busy(_, _)
send_task_from_retrying_busy(answers, attempt) ==
    IF attempt > MAC_CLIENT_RETRY_ATTEMPTS
    THEN [success |-> FALSE, attempts |-> attempt - 1]
    ELSE IF answers[attempt] = Accepted200
    THEN [success |-> TRUE, attempts |-> attempt]
    ELSE send_task_from_retrying_busy(answers, attempt + 1)

\* a client that takes every HTTP answer but busy for an acceptance
RECURSIVE send_task_from_trusting_any_answer(_, _)
send_task_from_trusting_any_answer(answers, attempt) ==
    IF attempt > MAC_CLIENT_RETRY_ATTEMPTS
    THEN [success |-> FALSE, attempts |-> attempt - 1]
    ELSE IF answers[attempt] \in {Accepted200, ServerError}
    THEN [success |-> TRUE, attempts |-> attempt]
    ELSE IF answers[attempt] = Busy429
    THEN [success |-> FALSE, attempts |-> attempt]
    ELSE send_task_from_trusting_any_answer(answers, attempt + 1)

\* the loop of MacClient.send_task from the given attempt on
\* (watcher/mac_client.py:92-155): 200 returns True, 429 returns False, every
\* other outcome is logged and the next attempt follows; after retry_attempts
\* attempts the call returns False.  attempts is the number of attempts made.
RECURSIVE send_task_from(_, _)
send_task_from(answers, attempt) ==
    IF attempt > MAC_CLIENT_RETRY_ATTEMPTS
    THEN [success |-> FALSE, attempts |-> attempt - 1]
    ELSE IF answers[attempt] = Accepted200
    THEN [success |-> TRUE, attempts |-> attempt]
    ELSE IF answers[attempt] = Busy429
    THEN [success |-> FALSE, attempts |-> attempt]
    ELSE send_task_from(answers, attempt + 1)

\* MacClient.send_task (watcher/mac_client.py:90-155)
send_task(answers) == send_task_from(answers, 1)

\* ---------------------------------------------------------- watcher cycle

\* process_pending_tasks from the head of the batch: mark it sent and open the
\* send_task call (line 143-146); with the batch used up the call returns and
\* run_single_cycle goes on to retry_failed_tasks and maintenance_tasks
\* (lines 238-244)
ContinueCycle(ts, batch, touched, count) ==
    /\ tasks_sent' = count
    /\ IF batch = << >>
       THEN /\ tasks' = maintenance_tasks(retry_failed_tasks(ts))
            /\ sending' = 0
            /\ pending_batch' = << >>
            /\ failed_reports' =
                   Track(failed_reports, tasks', touched \cup get_failed_tasks_for_retry(ts))
       ELSE /\ tasks' = update_task_status(ts, Head(batch), SENT)
            /\ sending' = Head(batch)
            /\ pending_batch' = Tail(batch)
            /\ failed_reports' = Track(failed_reports, ts, touched)

\* run_single_cycle (watcher/main.py:223-255) up to the first send_task call
run_single_cycle(found, outputs) ==
    /\ sending = 0
    /\ LET made == scan_and_process(tasks, next_id, found, outputs)
       IN  /\ next_id' = made.next_id
           /\ result' = IF made.raised THEN DuplicateName ELSE Ok
           /\ ContinueCycle(made.tasks,
                            get_pending_tasks(made.tasks, MAX_CONCURRENT_TASKS), {}, 0)
    /\ next_id' <= MaxTaskId + 1
    /\ WithinCap(tasks')
    /\ relocation_called' = FALSE
    /\ UNCHANGED deleting
    /\ UNCHANGED temp_files
    /\ UNCHANGED workerVars
    /\ UNCHANGED <<telegram_ok, processing_tasks>>

\* run_single_cycle (watcher/main.py:223-255) with nothing to dispatch and a
\* store error in the retry loop: increment_task_attempts raises for the tasks
\* in failing (at least one of the tasks selected for retry)
run_single_cycle_store_error(found) ==
    /\ sending = 0
    /\ LET made == scan_and_process(tasks, next_id, found, {})
           selected == get_failed_tasks_for_retry(made.tasks)
       IN  /\ get_pending_tasks(made.tasks, MAX_CONCURRENT_TASKS) = << >>
           /\ \E failing \in (SUBSET selected) \ {{}} :
                  tasks' = maintenance_tasks(retry_failed_tasks_raising(made.tasks, failing))
           /\ next_id' = made.next_id
           /\ result' = IF made.raised THEN DuplicateName ELSE Ok
           /\ failed_reports' = Track(failed_reports, tasks', selected)
    /\ next_id' <= MaxTaskId + 1
    /\ WithinCap(tasks')
    /\ tasks_sent' = 0
    /\ relocation_called' = FALSE
    /\ UNCHANGED deleting
    /\ UNCHANGED temp_files
    /\ UNCHANGED watcherVars
    /\ UNCHANGED workerVars
    /\ UNCHANGED <<telegram_ok, processing_tasks>>

\* a background job of the worker as process_video creates it (worker/main.py:186-197)
NewJob(task_id) ==
    [task_id |-> task_id,
     movie |-> IF task_id \in DOMAIN tasks THEN tasks[task_id].movie_name ELSE "",
     phase |-> "queued", success |-> FALSE, deliveries |-> 0,
     cancelled |-> NotCancelled]

\* send_task answered 200: process_video found the worker idle and queued the job
\* (worker/main.py:167-203); process_pending_tasks lines 148-151
send_task_accepted ==
    /\ sending # 0
    /\ ~is_processing
    /\ Cardinality(jobs \cup {NewJob(sending)}) <= MaxJobs
    /\ jobs' = jobs \cup {NewJob(sending)}
    /\ ContinueCycle(tasks, pending_batch, {}, tasks_sent + 1)
    /\ WithinCap(tasks')
    /\ relocation_called' = FALSE
    /\ result' = Ok
    /\ UNCHANGED deleting
    /\ UNCHANGED <<next_id, temp_files>>
    /\ UNCHANGED <<is_processing, current_task, progress_sends>>
    /\ UNCHANGED <<telegram_ok, processing_tasks>>

\* send_task returned False: the worker answered busy (429) or was not reached
send_task_rejected(busy) ==
    /\ sending # 0
    /\ busy => is_processing
    /\ ContinueCycle(dispatch_failed(tasks, sending), pending_batch, {sending}, tasks_sent)
    /\ WithinCap(tasks')
    /\ relocation_called' = FALSE
    /\ result' = Ok
    /\ UNCHANGED deleting
    /\ UNCHANGED <<next_id, temp_files>>
    /\ UNCHANGED workerVars
    /\ UNCHANGED <<telegram_ok, processing_tasks>>

\* process_video queued the job and answered 200, but no attempt of send_task
\* got an answer within its timeout (mac_client.py:117-141: the exception is
\* caught, later attempts find the worker unreachable or busy): send_task
\* returns False, process_pending_tasks lines 152-156
send_task_answer_lost ==
    /\ sending # 0
    /\ ~is_processing
    /\ Cardinality(jobs \cup {NewJob(sending)}) <= MaxJobs
    /\ jobs' = jobs \cup {NewJob(sending)}
    /\ ContinueCycle(dispatch_failed(tasks, sending), pending_batch, {sending}, tasks_sent)
    /\ WithinCap(tasks')
    /\ relocation_called' = FALSE
    /\ result' = Ok
    /\ UNCHANGED deleting
    /\ UNCHANGED <<next_id, temp_files>>
    /\ UNCHANGED <<is_processing, current_task, progress_sends>>
    /\ UNCHANGED <<telegram_ok, processing_tasks>>

\* process_pending_tasks from the send_task call to the next one or to the end
\* of the cycle (watcher/main.py:146-156), with the call followed attempt by
\* attempt: process_video answers 200 and queues the job while the processor
\* is idle and 429 while it is busy (worker/main.py:176-203)
send_task_call(answers) ==
    /\ sending # 0
    /\ \A i \in DOMAIN answers :
           /\ answers[i] = Accepted200 => ~is_processing
           /\ answers[i] = Busy429 => is_processing
    /\ LET sent == send_task(answers)
       IN  /\ IF sent.success
              THEN /\ jobs' = jobs \cup {NewJob(sending)}
                   /\ ContinueCycle(tasks, pending_batch, {}, tasks_sent + 1)
              ELSE /\ jobs' = jobs
                   /\ ContinueCycle(dispatch_failed(tasks, sending), pending_batch,
                                    {sending}, tasks_sent)
           /\ result' = IF sent.success THEN Ok ELSE answers[sent.attempts]
    /\ Cardinality(jobs') <= MaxJobs
    /\ WithinCap(tasks')
    /\ relocation_called' = FALSE
    /\ UNCHANGED deleting
    /\ UNCHANGED <<next_id, temp_files>>
    /\ UNCHANGED <<is_processing, current_task, progress_sends>>
    /\ UNCHANGED <<telegram_ok, processing_tasks>>

\* the retention window passes (60 days, db_manager.py:383-386) without a write
\* to the table: every updated_at is now before the cutoff of the next cleanup
days_pass ==
    /\ sending = 0
    /\ \E id \in DOMAIN tasks : tasks[id].updated_at = Recent
    /\ tasks' = [id \in DOMAIN tasks |-> [tasks[id] EXCEPT !.updated_at = Old]]
    /\ relocation_called' = FALSE
    /\ result' = Ok
    /\ UNCHANGED deleting
    /\ UNCHANGED <<next_id, temp_files>>
    /\ UNCHANGED watcherVars
    /\ UNCHANGED workerVars
    /\ UNCHANGED failed_reports
    /\ UNCHANGED <<telegram_ok, processing_tasks>>
    /\ tasks_sent' = IF sending # 0 THEN tasks_sent ELSE 0

\* ------------------------------------------------------------- NAS routes

\* a route that restarts a task whatever its status
restart_task_from_any_status(task_id) ==
    /\ task_id \in DOMAIN tasks
    /\ tasks' = reset_task_attempts(update_task_status(tasks, task_id, PENDING), task_id)
    /\ failed_reports' = [failed_reports EXCEPT ![task_id] = NoReports]
    /\ result' = Ok
    /\ relocation_called' = FALSE
    /\ UNCHANGED deleting
    /\ UNCHANGED <<next_id, temp_files>>
    /\ UNCHANGED watcherVars
    /\ UNCHANGED workerVars
    /\ UNCHANGED <<telegram_ok, processing_tasks>>
    /\ tasks_sent' = IF sending # 0 THEN tasks_sent ELSE 0

\* restart_task (api/routes.py:276-311)
restart_task(task_id) ==
    /\ task_id \in DOMAIN tasks
    /\ IF tasks[task_id].status \notin {COMPLETED, FAILED}
       THEN /\ result' = BadRequest
            /\ UNCHANGED <<tasks, failed_reports>>
       ELSE /\ tasks' = reset_task_attempts(
                            update_task_status(tasks, task_id, PENDING), task_id)
            /\ failed_reports' = [failed_reports EXCEPT ![task_id] = NoReports]
            /\ result' = Ok
    /\ relocation_called' = FALSE
    /\ UNCHANGED deleting
    /\ UNCHANGED <<next_id, temp_files>>
    /\ UNCHANGED watcherVars
    /\ UNCHANGED workerVars
    /\ UNCHANGED <<telegram_ok, processing_tasks>>
    /\ tasks_sent' = IF sending # 0 THEN tasks_sent ELSE 0

\* set_task_priority (api/routes.py:351-378)
set_task_priority(task_id, priority) ==
    /\ IF task_id \in DOMAIN tasks
       THEN tasks' = update_task_priority(tasks, task_id, priority) /\ result' = Ok
       ELSE tasks' = tasks /\ result' = NotFound
    /\ relocation_called' = FALSE
    /\ UNCHANGED deleting
    /\ UNCHANGED <<next_id, temp_files>>
    /\ UNCHANGED watcherVars
    /\ UNCHANGED workerVars
    /\ UNCHANGED <<telegram_ok, processing_tasks>>
    /\ UNCHANGED failed_reports
    /\ tasks_sent' = IF sending # 0 THEN tasks_sent ELSE 0

\* receive_status_update for a `completed` report that carries no temp_file
\* (api/webhook.py:93-98, 152-153)
receive_completed_without_temp_file(task_id) ==
    /\ task_id \in DOMAIN tasks
    /\ LET answer == receive_status_update(tasks, temp_files, task_id, COMPLETED,
                                            NoFile, TRUE, telegram_ok)
       IN  /\ tasks' = answer.tasks
           /\ relocation_called' = answer.relocated
           /\ result' = answer.code
    /\ UNCHANGED deleting
    /\ UNCHANGED <<next_id, temp_files>>
    /\ UNCHANGED watcherVars
    /\ UNCHANGED workerVars
    /\ UNCHANGED failed_reports
    /\ UNCHANGED <<telegram_ok, processing_tasks>>
    /\ tasks_sent' = IF sending # 0 THEN tasks_sent ELSE 0

\* receive_status_update for a report whose status is outside the known set
\* (api/webhook.py:103-105)
receive_unknown_status(task_id) ==
    /\ task_id \in DOMAIN tasks
    /\ LET answer == receive_status_update(tasks, temp_files, task_id, UnknownStatus,
                                            NoFile, TRUE, telegram_ok)
       IN  /\ tasks' = answer.tasks
           /\ relocation_called' = answer.relocated
           /\ result' = answer.code
    /\ UNCHANGED deleting
    /\ UNCHANGED <<next_id, temp_files>>
    /\ UNCHANGED watcherVars
    /\ UNCHANGED workerVars
    /\ UNCHANGED failed_reports
    /\ UNCHANGED <<telegram_ok, processing_tasks>>
    /\ tasks_sent' = IF sending # 0 THEN tasks_sent ELSE 0

\* delete_task route (api/routes.py:314-331): the row is read and its status
\* checked; a processing task is refused, any other goes on to the deletion
delete_task_check(task_id) ==
    /\ deleting = 0
    /\ task_id \in DOMAIN tasks
    /\ IF tasks[task_id].status = PROCESSING
       THEN result' = BadRequest /\ deleting' = 0
       ELSE result' = Ok /\ deleting' = task_id
    /\ relocation_called' = FALSE
    /\ UNCHANGED <<tasks, next_id, temp_files>>
    /\ UNCHANGED watcherVars
    /\ UNCHANGED workerVars
    /\ UNCHANGED failed_reports
    /\ UNCHANGED <<telegram_ok, processing_tasks>>
    /\ tasks_sent' = IF sending # 0 THEN tasks_sent ELSE 0

\* delete_task route (api/routes.py:333-342): the awaited row deletion runs
\* (the deletions followed are those that run while no send_task call for the
\* task is open, so that every job knows the movie of its task)
delete_task_commit ==
    /\ deleting # 0
    /\ deleting # sending
    /\ tasks' = delete_task(tasks, deleting)
    /\ failed_reports' = [id \in DOMAIN tasks' |-> failed_reports[id]]
    /\ deleting' = 0
    /\ result' = Ok
    /\ relocation_called' = FALSE
    /\ UNCHANGED <<next_id, temp_files>>
    /\ UNCHANGED watcherVars
    /\ UNCHANGED workerVars
    /\ UNCHANGED <<telegram_ok, processing_tasks>>
    /\ tasks_sent' = IF sending # 0 THEN tasks_sent ELSE 0

\* ----------------------------------------------------------------- worker

\* process_task, lines 101-103: the background job starts
process_task_start(j) ==
    /\ j \in jobs
    /\ j.phase = "queued"
    /\ jobs' = (jobs \ {j}) \cup {[j EXCEPT !.phase = "running"]}
    /\ is_processing' = TRUE
    /\ current_task' = j.task_id
    /\ relocation_called' = FALSE
    /\ result' = Ok
    /\ UNCHANGED deleting
    /\ UNCHANGED <<tasks, next_id, temp_files, progress_sends>>
    /\ UNCHANGED watcherVars
    /\ UNCHANGED failed_reports
    /\ UNCHANGED <<telegram_ok, processing_tasks>>
    /\ tasks_sent' = IF sending # 0 THEN tasks_sent ELSE 0

\* on_processing_progress (worker/main.py:139-147): a progress report is created
on_processing_progress(j) ==
    /\ j \in jobs
    /\ j.phase = "running"
    /\ current_task = j.task_id
    /\ progress_sends' = progress_sends \cup {j.task_id}
    /\ relocation_called' = FALSE
    /\ result' = Ok
    /\ UNCHANGED deleting
    /\ UNCHANGED <<tasks, next_id, temp_files, is_processing, current_task, jobs>>
    /\ UNCHANGED watcherVars
    /\ UNCHANGED failed_reports
    /\ UNCHANGED <<telegram_ok, processing_tasks>>
    /\ tasks_sent' = IF sending # 0 THEN tasks_sent ELSE 0

\* cancel_task route of the worker (worker/main.py:308-338) for the task the
\* processor is running: cancel_current_task sets the flag of the conversion
\* and the route reports the task failed (delivered: the report reaches the NAS)
cancel_task(j, delivered) ==
    /\ j \in jobs
    /\ j.phase = "running"
    /\ j.cancelled = NotCancelled
    /\ current_task = j.task_id
    /\ is_processing
    /\ jobs' = (jobs \ {j}) \cup
               {[j EXCEPT !.cancelled = IF delivered THEN CancelReported
                                        ELSE CancelUnreported]}
    /\ IF delivered
       THEN LET answer == receive_status_update(tasks, temp_files, j.task_id, FAILED,
                                                NoFile, TRUE, telegram_ok)
            IN  tasks' = answer.tasks /\ result' = answer.code
       ELSE tasks' = tasks /\ result' = Ok
    /\ WithinCap(tasks')
    /\ failed_reports' =
           IF delivered /\ j.task_id \in DOMAIN tasks
           THEN [failed_reports EXCEPT ![j.task_id].count = @ + 1]
           ELSE failed_reports
    /\ relocation_called' = FALSE
    /\ UNCHANGED deleting
    /\ UNCHANGED <<next_id, temp_files, is_processing, current_task, progress_sends>>
    /\ UNCHANGED watcherVars
    /\ UNCHANGED <<telegram_ok, processing_tasks>>
    /\ tasks_sent' = IF sending # 0 THEN tasks_sent ELSE 0

\* a processor without the finally block: a failed execution leaves the flags set
process_task_finish_busy_after_failure(j, ok) ==
    /\ j \in jobs
    /\ j.phase = "running"
    /\ jobs' = (jobs \ {j}) \cup {[j EXCEPT !.phase = "started", !.success = ok]}
    /\ temp_files' = IF ok THEN temp_files \cup {j.movie} ELSE temp_files
    /\ is_processing' = IF ok THEN FALSE ELSE is_processing
    /\ current_task' = IF ok THEN 0 ELSE current_task
    /\ relocation_called' = FALSE
    /\ result' = Ok
    /\ UNCHANGED deleting
    /\ UNCHANGED <<tasks, next_id, progress_sends>>
    /\ UNCHANGED watcherVars
    /\ UNCHANGED failed_reports
    /\ UNCHANGED <<telegram_ok, processing_tasks>>
    /\ tasks_sent' = IF sending # 0 THEN tasks_sent ELSE 0

\* process_task returns (a cancelled conversion returns failure when the flag
\* reached it, ffmpeg_wrapper.py:139, 330-340): success leaves the artifact in the temp folder; the
\* finally block clears current_task and is_processing (processor.py:157-188)
process_task_finish(j, ok) ==
    /\ j \in jobs
    /\ j.phase = "running"
    /\ jobs' = (jobs \ {j}) \cup {[j EXCEPT !.phase = "started", !.success = ok]}
    /\ temp_files' = IF ok THEN temp_files \cup {j.movie} ELSE temp_files
    /\ is_processing' = FALSE
    /\ current_task' = 0
    /\ relocation_called' = FALSE
    /\ result' = Ok
    /\ UNCHANGED deleting
    /\ UNCHANGED <<tasks, next_id, progress_sends>>
    /\ UNCHANGED watcherVars
    /\ UNCHANGED failed_reports
    /\ UNCHANGED <<telegram_ok, processing_tasks>>
    /\ tasks_sent' = IF sending # 0 THEN tasks_sent ELSE 0

\* a sender that returns on 200 alone: a rejected report is sent again
AfterDelivery_retrying_rejections(j, acked) ==
    IF (acked /\ j.task_id \in DOMAIN tasks)
           \/ j.deliveries + 1 >= NAS_CLIENT_RETRY_ATTEMPTS
    THEN {}
    ELSE {[j EXCEPT !.deliveries = @ + 1]}

\* NASClient.send_status_update (nas_client.py:64-124) makes up to retry_attempts
\* tries.  A try that reaches the NAS runs the handler; when its answer, 200 or
\* 4xx, comes back (acked) the call returns, when the answer is lost the report
\* is sent again.  Tries that do not reach the NAS change nothing; when all of
\* them fail the call returns with the report undelivered (give_up).
AfterDelivery(j, acked) ==
    IF acked \/ j.deliveries + 1 >= NAS_CLIENT_RETRY_ATTEMPTS
    THEN {}
    ELSE {[j EXCEPT !.deliveries = @ + 1]}

\* a send_status_update call returns with its report not (or no more) delivered
give_up(j) ==
    /\ j \in jobs
    /\ j.phase \in {"started", "terminal"}
    /\ jobs' = (jobs \ {j}) \cup
               (IF j.phase = "started" THEN {[j EXCEPT !.phase = "terminal"]} ELSE {})
    /\ relocation_called' = FALSE
    /\ result' = Ok
    /\ UNCHANGED deleting
    /\ UNCHANGED <<tasks, next_id, temp_files, is_processing, current_task, progress_sends>>
    /\ UNCHANGED watcherVars
    /\ UNCHANGED failed_reports
    /\ UNCHANGED <<telegram_ok, processing_tasks>>
    /\ tasks_sent' = IF sending # 0 THEN tasks_sent ELSE 0

\* report_task_lifecycle, line 314: the `processing` report reaches the NAS
\* (a repeated delivery of it acts as send_task_progress does)
send_task_started(j) ==
    /\ j \in jobs
    /\ j.phase = "started"
    /\ LET answer == receive_status_update(tasks, temp_files, j.task_id, PROCESSING,
                                            NoFile, TRUE, telegram_ok)
       IN  tasks' = answer.tasks /\ result' = answer.code
    /\ jobs' = (jobs \ {j}) \cup {[j EXCEPT !.phase = "terminal"]}
    /\ relocation_called' = FALSE
    /\ UNCHANGED deleting
    /\ UNCHANGED <<next_id, temp_files, is_processing, current_task, progress_sends>>
    /\ UNCHANGED watcherVars
    /\ UNCHANGED failed_reports
    /\ UNCHANGED <<telegram_ok, processing_tasks>>
    /\ tasks_sent' = IF sending # 0 THEN tasks_sent ELSE 0

\* report_task_lifecycle, lines 320-323: the `completed` report reaches the NAS,
\* receive_status_update runs handle_completion_status
send_task_completed(j, acked, io_ok) ==
    /\ j \in jobs
    /\ j.phase = "terminal"
    /\ j.success
    /\ LET answer == receive_status_update(tasks, temp_files, j.task_id, COMPLETED,
                                            j.movie, io_ok, telegram_ok)
       IN  /\ tasks' = answer.tasks
           /\ temp_files' = answer.temp
           /\ relocation_called' = answer.relocated
           /\ result' = answer.code
    /\ UNCHANGED deleting
    /\ jobs' = (jobs \ {j}) \cup AfterDelivery(j, acked)
    /\ UNCHANGED <<next_id, is_processing, current_task, progress_sends>>
    /\ UNCHANGED watcherVars
    /\ UNCHANGED failed_reports
    /\ UNCHANGED <<telegram_ok, processing_tasks>>
    /\ tasks_sent' = IF sending # 0 THEN tasks_sent ELSE 0

\* report_task_lifecycle, lines 325-328: the `failed` report reaches the NAS,
\* receive_status_update runs handle_failed_status
send_task_failed(j, acked) ==
    /\ j \in jobs
    /\ j.phase = "terminal"
    /\ ~j.success
    /\ LET answer == receive_status_update(tasks, temp_files, j.task_id, FAILED,
                                            NoFile, TRUE, telegram_ok)
       IN  tasks' = answer.tasks /\ result' = answer.code
    /\ WithinCap(tasks')
    /\ failed_reports' =
           IF j.task_id \notin DOMAIN tasks THEN failed_reports
           ELSE IF failed_reports[j.task_id].other \/ j.deliveries > 0
           THEN [failed_reports EXCEPT ![j.task_id] = OtherCauses]
           ELSE [failed_reports EXCEPT ![j.task_id].count = @ + 1]
    /\ jobs' = (jobs \ {j}) \cup AfterDelivery(j, acked)
    /\ relocation_called' = FALSE
    /\ UNCHANGED deleting
    /\ UNCHANGED <<next_id, temp_files, is_processing, current_task, progress_sends>>
    /\ UNCHANGED watcherVars
    /\ UNCHANGED <<telegram_ok, processing_tasks>>
    /\ tasks_sent' = IF sending # 0 THEN tasks_sent ELSE 0

\* a progress report reaches receive_status_update (status `processing` with
\* progress_percent, nas_client.py:135-142)
send_task_progress(task_id) ==
    /\ task_id \in progress_sends
    /\ progress_sends' = progress_sends \ {task_id}
    /\ LET answer == receive_status_update(tasks, temp_files, task_id, PROCESSING,
                                            NoFile, TRUE, telegram_ok)
       IN  tasks' = answer.tasks /\ result' = answer.code
    /\ relocation_called' = FALSE
    /\ UNCHANGED deleting
    /\ UNCHANGED <<next_id, temp_files, is_processing, current_task, jobs>>
    /\ UNCHANGED watcherVars
    /\ UNCHANGED failed_reports
    /\ UNCHANGED <<telegram_ok, processing_tasks>>
    /\ tasks_sent' = IF sending # 0 THEN tasks_sent ELSE 0

\* the worker process stops (lifespan, worker/main.py:100-116): with notified
\* the NAS receives worker_shutdown_notification and sweeps; the jobs of the
\* process end with it, reports already on the wire stay in flight
worker_shutdown(notified) ==
    /\ tasks' = IF notified THEN shutdown_sweep(tasks) ELSE tasks
    /\ jobs' = {}
    /\ is_processing' = FALSE
    /\ current_task' = 0
    /\ relocation_called' = FALSE
    /\ result' = Ok
    /\ UNCHANGED deleting
    /\ UNCHANGED <<next_id, temp_files, progress_sends>>
    /\ UNCHANGED watcherVars
    /\ UNCHANGED failed_reports
    /\ UNCHANGED <<telegram_ok, processing_tasks>>
    /\ tasks_sent' = IF sending # 0 THEN tasks_sent ELSE 0

\* the worker process stops and worker_shutdown_notification reads the tasks in
\* processing (api/webhook.py:299-300); the jobs of the process end with it,
\* a final report already sent stays in flight
worker_shutdown_read ==
    /\ processing_tasks = << >>
    /\ processing_tasks' = <<get_tasks_by_status(tasks, PROCESSING)>>
    /\ jobs' = {j \in jobs : j.phase = "terminal"}
    /\ is_processing' = FALSE
    /\ current_task' = 0
    /\ relocation_called' = FALSE
    /\ result' = Ok
    /\ UNCHANGED <<deleting, telegram_ok>>
    /\ UNCHANGED <<tasks, next_id, temp_files, progress_sends>>
    /\ UNCHANGED watcherVars
    /\ UNCHANGED failed_reports
    /\ tasks_sent' = IF sending # 0 THEN tasks_sent ELSE 0

\* worker_shutdown_notification resets the tasks it read (api/webhook.py:303-305)
worker_shutdown_reset ==
    /\ processing_tasks # << >>
    /\ tasks' = reset_to_pending(tasks, processing_tasks[1])
    /\ processing_tasks' = << >>
    /\ relocation_called' = FALSE
    /\ result' = Ok
    /\ UNCHANGED <<deleting, telegram_ok>>
    /\ UNCHANGED <<next_id, temp_files>>
    /\ UNCHANGED watcherVars
    /\ UNCHANGED workerVars
    /\ UNCHANGED failed_reports
    /\ tasks_sent' = IF sending # 0 THEN tasks_sent ELSE 0

\* the Telegram API becomes unreachable, or reachable again
telegram_changes ==
    /\ telegram_ok' = ~telegram_ok
    /\ UNCHANGED processing_tasks
    /\ relocation_called' = FALSE
    /\ result' = Ok
    /\ UNCHANGED deleting
    /\ UNCHANGED <<tasks, next_id, temp_files>>
    /\ UNCHANGED watcherVars
    /\ UNCHANGED workerVars
    /\ UNCHANGED failed_reports
    /\ tasks_sent' = IF sending # 0 THEN tasks_sent ELSE 0

\* the tasks an administrator finds completed or failed
Finished == get_tasks_by_status(tasks, COMPLETED) \cup get_tasks_by_status(tasks, FAILED)

\* the watcher, the restart of finished tasks and the worker with its reports
Next ==
    \/ \E found \in SUBSET Movies : run_single_cycle(found, {})
    \/ send_task_accepted
    \/ \E busy \in BOOLEAN : send_task_rejected(busy)
    \/ \E id \in Finished : restart_task(id)
    \/ \E j \in jobs : process_task_start(j)
    \/ \E j \in jobs : on_processing_progress(j)
    \/ \E j \in jobs, ok \in BOOLEAN : process_task_finish(j, ok)
    \/ \E j \in jobs : give_up(j)
    \/ \E j \in jobs : send_task_started(j)
    \/ \E j \in jobs, acked \in BOOLEAN, io \in BOOLEAN : send_task_completed(j, acked, io)
    \/ \E j \in jobs, acked \in BOOLEAN : send_task_failed(j, acked)
    \/ \E id \in progress_sends : send_task_progress(id)
    \/ \E n \in BOOLEAN : worker_shutdown(n)

Spec == Init /\ [][Next]_vars

\* run_service keeps cycling (watcher/main.py:262-280) and every send_task call
\* returns (mac_client.py: request timeout and bounded retries); the worker and
\* its reports are under no obligation
WatcherFairness ==
    /\ WF_vars(\E found \in SUBSET Movies : run_single_cycle(found, {}))
    /\ WF_vars(send_task_accepted \/ \E busy \in BOOLEAN : send_task_rejected(busy))

SpecFair == Init /\ [][Next]_vars /\ WatcherFairness

\* the same system with a webhook that any client can post to
WebhookNext ==
    \/ Next
    \/ \E id \in DOMAIN tasks : receive_completed_without_temp_file(id)

SpecWebhook == Init /\ [][WebhookNext]_vars

\* one disc with the administrative routes called on any task and a webhook
\* that receives unknown status values; every report arrives once or never
AdminNext ==
    \/ \E found \in SUBSET Movies : run_single_cycle(found, {})
    \/ send_task_accepted
    \/ \E busy \in BOOLEAN : send_task_rejected(busy)
    \/ \E id \in DOMAIN tasks : restart_task(id)
    \/ \E id \in DOMAIN tasks : delete_task_check(id)
    \/ delete_task_commit
    \/ \E id \in DOMAIN tasks : receive_unknown_status(id)
    \/ \E j \in jobs : process_task_start(j)
    \/ \E j \in jobs, ok \in BOOLEAN : process_task_finish(j, ok)
    \/ \E j \in jobs : give_up(j)
    \/ \E j \in jobs : send_task_started(j)
    \/ \E j \in jobs : send_task_completed(j, TRUE, TRUE)
    \/ \E j \in jobs : send_task_failed(j, TRUE)

SpecAdmin == Init /\ [][AdminNext]_vars

\* one disc, a dispatcher whose send_task calls can lose the worker's answer,
\* and a worker whose reports all arrive once or never
DispatchNext ==
    \/ \E found \in SUBSET Movies : run_single_cycle(found, {})
    \/ send_task_accepted
    \/ send_task_answer_lost
    \/ \E busy \in BOOLEAN : send_task_rejected(busy)
    \/ \E j \in jobs : process_task_start(j)
    \/ \E j \in jobs, ok \in BOOLEAN : process_task_finish(j, ok)
    \/ \E j \in jobs : give_up(j)
    \/ \E j \in jobs : send_task_started(j)
    \/ \E j \in jobs, io \in BOOLEAN : send_task_completed(j, TRUE, io)
    \/ \E j \in jobs : send_task_failed(j, TRUE)
    \/ \E n \in BOOLEAN : worker_shutdown(n)

SpecDispatch == Init /\ [][DispatchNext]_vars

\* one disc over a time in which rows outlive the retention window, and a
\* processed folder in which the scanner finds a file of the disc's name or
\* not; every report arrives once or never (the other specifications have no
\* such file: the worker names its outputs otherwise, processor.py:281-288)
RetentionNext ==
    \/ \E found \in SUBSET Movies : \E outputs \in SUBSET found :
           run_single_cycle(found, outputs)
    \/ send_task_accepted
    \/ \E busy \in BOOLEAN : send_task_rejected(busy)
    \/ days_pass
    \/ \E j \in jobs : process_task_start(j)
    \/ \E j \in jobs, ok \in BOOLEAN : process_task_finish(j, ok)
    \/ \E j \in jobs : give_up(j)
    \/ \E j \in jobs : send_task_started(j)
    \/ \E j \in jobs, io \in BOOLEAN : send_task_completed(j, TRUE, io)
    \/ \E j \in jobs : send_task_failed(j, TRUE)

SpecRetention == Init /\ [][RetentionNext]_vars

\* one disc, a notifier whose messages fail at times, and a worker whose
\* reports all arrive once or never
NotifyNext ==
    \/ \E found \in SUBSET Movies : run_single_cycle(found, {})
    \/ send_task_accepted
    \/ \E busy \in BOOLEAN : send_task_rejected(busy)
    \/ telegram_changes
    \/ \E j \in jobs : process_task_start(j)
    \/ \E j \in jobs : on_processing_progress(j)
    \/ \E j \in jobs, ok \in BOOLEAN : process_task_finish(j, ok)
    \/ \E j \in jobs : give_up(j)
    \/ \E j \in jobs : send_task_started(j)
    \/ \E j \in jobs, io \in BOOLEAN : send_task_completed(j, TRUE, io)
    \/ \E j \in jobs : send_task_failed(j, TRUE)
    \/ \E id \in progress_sends : send_task_progress(id)

SpecNotify == Init /\ [][NotifyNext]_vars

\* one disc and a worker that takes cancel requests for the task it runs;
\* its reports all arrive once or never
CancelNext ==
    \/ \E found \in SUBSET Movies : run_single_cycle(found, {})
    \/ send_task_accepted
    \/ \E busy \in BOOLEAN : send_task_rejected(busy)
    \/ \E j \in jobs, delivered \in BOOLEAN : cancel_task(j, delivered)
    \/ \E j \in jobs : process_task_start(j)
    \/ \E j \in jobs, ok \in BOOLEAN : process_task_finish(j, ok)
    \/ \E j \in jobs : give_up(j)
    \/ \E j \in jobs : send_task_started(j)
    \/ \E j \in jobs, io \in BOOLEAN : send_task_completed(j, TRUE, io)
    \/ \E j \in jobs : send_task_failed(j, TRUE)

SpecCancel == Init /\ [][CancelNext]_vars

\* one disc and a worker that stops at any moment, with the shutdown sweep of
\* the NAS as the two awaited store calls it is made of; reports arrive once
\* or never
SweepNext ==
    \/ \E found \in SUBSET Movies : run_single_cycle(found, {})
    \/ send_task_accepted
    \/ \E busy \in BOOLEAN : send_task_rejected(busy)
    \/ worker_shutdown_read
    \/ worker_shutdown_reset
    \/ \E j \in jobs : process_task_start(j)
    \/ \E j \in jobs, ok \in BOOLEAN : process_task_finish(j, ok)
    \/ \E j \in jobs : give_up(j)
    \/ \E j \in jobs : send_task_started(j)
    \/ \E j \in jobs, io \in BOOLEAN : send_task_completed(j, TRUE, io)
    \/ \E j \in jobs : send_task_failed(j, TRUE)

SpecSweep == Init /\ [][SweepNext]_vars

\* two discs whose tasks are given priorities by an administrator, the
\* dispatcher and a worker whose reports all arrive once
PriorityNext ==
    \/ \E found \in SUBSET MoviePair : run_single_cycle(found, {})
    \/ send_task_accepted
    \/ \E busy \in BOOLEAN : send_task_rejected(busy)
    \/ \E id \in DOMAIN tasks, priority \in Priorities : set_task_priority(id, priority)
    \/ \E j \in jobs : process_task_start(j)
    \/ \E j \in jobs, ok \in BOOLEAN : process_task_finish(j, ok)
    \/ \E j \in jobs : send_task_started(j)
    \/ \E j \in jobs : send_task_completed(j, TRUE, TRUE)
    \/ \E j \in jobs : send_task_failed(j, TRUE)

SpecPriority == Init /\ [][PriorityNext]_vars

\* one disc, a store whose increment_task_attempts fails at times in the retry
\* loop, and a worker whose reports all arrive once or never
RetryNext ==
    \/ \E found \in SUBSET Movies : run_single_cycle(found, {})
    \/ \E found \in SUBSET Movies : run_single_cycle_store_error(found)
    \/ send_task_accepted
    \/ \E busy \in BOOLEAN : send_task_rejected(busy)
    \/ \E j \in jobs : process_task_start(j)
    \/ \E j \in jobs, ok \in BOOLEAN : process_task_finish(j, ok)
    \/ \E j \in jobs : give_up(j)
    \/ \E j \in jobs : send_task_started(j)
    \/ \E j \in jobs, io \in BOOLEAN : send_task_completed(j, TRUE, io)
    \/ \E j \in jobs : send_task_failed(j, TRUE)

SpecRetry == Init /\ [][RetryNext]_vars

\* one disc, an administrator who deletes tasks, and a worker whose final
\* reports are sent again when their answer is lost
ReportNext ==
    \/ \E found \in SUBSET Movies : run_single_cycle(found, {})
    \/ send_task_accepted
    \/ \E id \in DOMAIN tasks : delete_task_check(id)
    \/ delete_task_commit
    \/ \E j \in jobs : process_task_start(j)
    \/ \E j \in jobs, ok \in BOOLEAN : process_task_finish(j, ok)
    \/ \E j \in jobs : send_task_started(j)
    \/ \E j \in jobs, acked \in BOOLEAN : send_task_completed(j, acked, TRUE)
    \/ \E j \in jobs, acked \in BOOLEAN : send_task_failed(j, acked)

SpecReport == Init /\ [][ReportNext]_vars

\* two discs, a dispatcher whose send_task calls are followed attempt by
\* attempt, and a worker whose reports all arrive once or never
DeliveryNext ==
    \/ \E found \in SUBSET MoviePair : run_single_cycle(found, {})
    \/ \E answers \in AnswerSeqs : send_task_call(answers)
    \/ \E j \in jobs : process_task_start(j)
    \/ \E j \in jobs, ok \in BOOLEAN : process_task_finish(j, ok)
    \/ \E j \in jobs : give_up(j)
    \/ \E j \in jobs : send_task_started(j)
    \/ \E j \in jobs : send_task_completed(j, TRUE, TRUE)
    \/ \E j \in jobs : send_task_failed(j, TRUE)

SpecDelivery == Init /\ [][DeliveryNext]_vars

\* two discs, a dispatcher whose send_task calls are followed attempt by
\* attempt, and a worker that converts every task it accepted and reports it
SendNext ==
    \/ \E found \in SUBSET MoviePair : run_single_cycle(found, {})
    \/ \E answers \in AnswerSeqs : send_task_call(answers)
    \/ \E j \in jobs : process_task_start(j)
    \/ \E j \in jobs : process_task_finish(j, TRUE)
    \/ \E j \in jobs : send_task_started(j)
    \/ \E j \in jobs : send_task_completed(j, TRUE, TRUE)

SpecSend == Init /\ [][SendNext]_vars

\* two discs, the dispatcher and a worker whose reports all arrive once or never
PairNext ==
    \/ \E found \in SUBSET MoviePair : run_single_cycle(found, {})
    \/ send_task_accepted
    \/ \E busy \in BOOLEAN : send_task_rejected(busy)
    \/ \E j \in jobs : process_task_start(j)
    \/ \E j \in jobs, ok \in BOOLEAN : process_task_finish(j, ok)
    \/ \E j \in jobs : give_up(j)
    \/ \E j \in jobs : send_task_started(j)
    \/ \E j \in jobs : send_task_completed(j, TRUE, TRUE)
    \/ \E j \in jobs : send_task_failed(j, TRUE)

SpecPair == Init /\ [][PairNext]_vars

\* ------------------------------------------------------------------ claims

InFlight(status) == {id \in DOMAIN tasks : tasks[id].status = status}

\* the step delivers the `failed` report of job j to an existing task
FailedReportStep(j) ==
    /\ j.task_id \in DOMAIN tasks
    /\ \E acked \in BOOLEAN : send_task_failed(j, acked)

\* the step delivers the `completed` report of job j to an existing task
CompletedReportStep(j, io_ok) ==
    /\ j.task_id \in DOMAIN tasks
    /\ \E acked \in BOOLEAN : send_task_completed(j, acked, io_ok)

\* C1: every `failed` report handled by handle_failed_status raises the task's
\* attempts by exactly 1, whether the task is requeued or left failed.
C1_FailedReportAddsOne ==
    [][\A j \in jobs :
          FailedReportStep(j) =>
              tasks'[j.task_id].attempts = tasks[j.task_id].attempts + 1]_vars

\* C2: attempts of a task never decreases in a step of the dispatcher, the
\* status receiver or the shutdown sweep; it is unchanged for the task by its
\* successful dispatch (the task is still sent when the worker accepts it), by
\* a `processing` report, by a `completed` report that completes it and by the
\* sweep; only restart_task lowers it, to 0.  A step that changes no task's
\* attempts satisfies every clause, so it is set aside first.
AttemptsKept(id) == tasks'[id].attempts = tasks[id].attempts

C2_AttemptsNeverDecrease ==
    [][\/ \A id \in DOMAIN tasks : AttemptsKept(id)
       \/ /\ \A id \in DOMAIN tasks :
                \/ tasks'[id].attempts >= tasks[id].attempts
                \/ restart_task(id) /\ tasks'[id].attempts = 0
          /\ \/ sending = 0
             \/ AttemptsKept(sending)
             \/ ~(send_task_accepted /\ tasks[sending].status = SENT)
          /\ \A j \in jobs :
                \/ j.task_id \notin DOMAIN tasks
                \/ AttemptsKept(j.task_id)
                \/ /\ ~send_task_started(j)
                   /\ ~(CompletedReportStep(j, TRUE) /\ tasks'[j.task_id].status = COMPLETED)
          /\ \A id \in progress_sends :
                \/ id \notin DOMAIN tasks
                \/ AttemptsKept(id)
                \/ ~send_task_progress(id)
          /\ ~(\E n \in BOOLEAN : worker_shutdown(n))]_vars

\* C2 witness: a task that was dispatched, reported processing and completed
\* after earlier failures still carries the attempts it had collected
C2_Witness ==
    \E id \in DOMAIN tasks :
        tasks[id].status = COMPLETED /\ tasks[id].attempts >= 1

\* C3: with one worker, at most one task has status `processing` in every
\* reachable state.
C3_AtMostOneProcessing == Cardinality(InFlight(PROCESSING)) <= 1

\* C4: the number of tasks with status `sent` or `processing` never exceeds
\* max_concurrent_tasks (1): process_pending_tasks marks no task sent while
\* another one is sent or processing.
C4_InFlightWithinLimit ==
    Cardinality(InFlight(SENT) \cup InFlight(PROCESSING)) <= MAX_CONCURRENT_TASKS

\* status, attempts and error of the task are what they were
SameState(id) ==
    /\ tasks'[id].status = tasks[id].status
    /\ tasks'[id].attempts = tasks[id].attempts
    /\ tasks'[id].error_message = tasks[id].error_message

\* C5: the same `completed` report applied a second time (its first answer was
\* lost, the task is completed) leaves status, attempts and error as the first
\* application left them and does not invoke move_to_processed again.
C5_CompletedReportIdempotent ==
    [][\A j \in jobs : \A io_ok \in BOOLEAN :
          (CompletedReportStep(j, io_ok) /\ j.deliveries >= 1
              /\ tasks[j.task_id].status = COMPLETED)
          => SameState(j.task_id) /\ ~relocation_called']_vars

\* a step of the status receiver or of the shutdown sweep
StatusReportStep ==
    \/ \E j \in jobs : send_task_started(j)
    \/ \E j \in jobs, acked \in BOOLEAN, io_ok \in BOOLEAN : send_task_completed(j, acked, io_ok)
    \/ \E j \in jobs, acked \in BOOLEAN : send_task_failed(j, acked)
    \/ \E id \in progress_sends : send_task_progress(id)
    \/ \E id \in DOMAIN tasks : receive_completed_without_temp_file(id)
    \/ \E n \in BOOLEAN : worker_shutdown(n)

\* C6: once a task is completed, no status report (late, duplicated or out of
\* order) and no shutdown sweep changes its status, attempts or error.
C6_CompletedIsFinal ==
    [][StatusReportStep =>
          \A id \in DOMAIN tasks :
              tasks[id].status = COMPLETED => SameState(id)]_vars

\* C7: a `completed` report that carries an artifact whose relocation fails
\* leaves the task failed with the relocation error recorded and attempts
\* raised by 1.
C7_RelocationFailureCounted ==
    [][\A j \in jobs : \A io_ok \in BOOLEAN :
          (CompletedReportStep(j, io_ok)
              /\ ~move_to_processed(temp_files, j.movie, io_ok).success)
          => /\ tasks'[j.task_id].status = FAILED
             /\ tasks'[j.task_id].error_message = MoveFailedError
             /\ tasks'[j.task_id].attempts = tasks[j.task_id].attempts + 1]_vars

\* C8: a `completed` report without temp_file leaves the task failed with
\* attempts raised by 1, and move_to_processed is not invoked.
C8_MissingArtifactCounted ==
    [][\A id \in DOMAIN tasks :
          receive_completed_without_temp_file(id)
          => /\ tasks'[id].status = FAILED
             /\ tasks'[id].attempts = tasks[id].attempts + 1
             /\ ~relocation_called']_vars

\* C9: for a task whose delivery fails on every dispatch cycle, the dispatch
\* failure that brings attempts to the maximum (3) moves the task to failed
\* instead of leaving it pending.
C9_DispatchFailuresBounded ==
    [][\A busy \in BOOLEAN :
          (send_task_rejected(busy)
              /\ tasks[sending].status = SENT
              /\ tasks[sending].error_message = NoError
              /\ tasks[sending].attempts + 1 = MAX_RETRY_ATTEMPTS)
          => tasks'[sending].status = FAILED]_vars

\* C10: a task whose every processing attempt is reported failed gets exactly
\* 3 tries: the first and the second `failed` report return it to pending, the
\* third leaves it failed.
C10_ThreeTries ==
    [][\A j \in jobs :
          (FailedReportStep(j) /\ j.deliveries = 0
              /\ ~failed_reports[j.task_id].other)
          => LET n == failed_reports[j.task_id].count + 1
             IN  /\ n < MAX_RETRY_ATTEMPTS => tasks'[j.task_id].status = PENDING
                 /\ n = MAX_RETRY_ATTEMPTS => tasks'[j.task_id].status = FAILED]_vars

\* C11: once a task is failed with attempts at or above the maximum, no step of
\* the dispatch cycle, of the status receiver or of the shutdown sweep changes
\* its status; only restart_task takes it out of failed.
C11_ExhaustedStaysFailed ==
    [][\A id \in DOMAIN tasks :
          (tasks[id].status = FAILED /\ tasks[id].attempts >= MAX_RETRY_ATTEMPTS)
          => \/ tasks'[id].status = FAILED
             \/ restart_task(id)]_vars

\* the worker holds no job for the task and no report for it is in flight
Silent(id) ==
    /\ \A j \in jobs : j.task_id # id
    /\ id \notin progress_sends

\* C12: a task that is processing and gets no further report (the worker
\* stopped, with or without a shutdown notification) is eventually pending
\* again.
C12_ProcessingRequeued ==
    \A id \in 1..MaxTaskId :
        (id \in DOMAIN tasks /\ tasks[id].status = PROCESSING /\ Silent(id))
            ~> (id \in DOMAIN tasks /\ tasks[id].status = PENDING)

\* C13: a task that is sent and for which the worker never reports (it stopped
\* after accepting the task) is eventually pending again.
C13_SentRequeued ==
    \A id \in 1..MaxTaskId :
        (id \in DOMAIN tasks /\ tasks[id].status = SENT /\ sending # id /\ Silent(id))
            ~> (id \in DOMAIN tasks /\ tasks[id].status = PENDING)

\* C14: create_task with a name that an existing task already has, whatever the
\* status of that task, fails, adds no row and leaves every row as it was.
C14_DuplicateNameRejected ==
    \A name \in Movies : \A prio \in {0, 1} :
        NameExists(tasks, name) =>
            LET made == create_task(tasks, next_id, name, prio)
            IN  /\ ~made.ok
                /\ made.tasks = tasks
                /\ made.next_id = next_id

\* C14 witness: a cycle has just called create_task for a movie whose task
\* exists (the scan lets the names of pending and retryable failed tasks
\* through), the call raised and the row still carries its attempts
C14_Witness ==
    /\ result = DuplicateName
    /\ \E id \in DOMAIN tasks : tasks[id].attempts >= 1

\* the task has met no failure: nothing counted, nothing recorded
Untroubled(row) == row.attempts = 0 /\ row.error_message = NoError

\* C15: on the failure-free path the task is created pending and marked sent
\* by the cycle that dispatches it, stays sent when the worker accepts it, goes
\* from sent to processing on the `processing` report and from processing to
\* completed on the `completed` report whose artifact is relocated;
\* move_to_processed is invoked in the last of these steps only, both
\* timestamps are set by then and attempts is 0 throughout.
C15_FailureFreePath ==
    [][/\ \A id \in DOMAIN tasks' \ DOMAIN tasks :
             \A found \in SUBSET Movies :
                 \/ ~run_single_cycle(found, {})
                 \/ /\ scan_and_process(tasks, next_id, found, {}).tasks[id].status = PENDING
                    /\ tasks'[id].status = SENT
                    /\ Untroubled(tasks'[id])
                    /\ ~relocation_called'
       /\ \/ sending = 0
          \/ ~(tasks[sending].status = SENT /\ Untroubled(tasks[sending]))
          \/ ~send_task_accepted
          \/ /\ tasks'[sending].status = SENT
             /\ Untroubled(tasks'[sending])
             /\ ~relocation_called'
       /\ \A j \in jobs :
             \/ j.task_id \notin DOMAIN tasks
             \/ ~(tasks[j.task_id].status = SENT /\ Untroubled(tasks[j.task_id]))
             \/ ~send_task_started(j)
             \/ /\ tasks'[j.task_id].status = PROCESSING
                /\ tasks'[j.task_id].processing_started_at # NotSet
                /\ Untroubled(tasks'[j.task_id])
                /\ ~relocation_called'
       /\ \A j \in jobs :
             \/ j.task_id \notin DOMAIN tasks
             \/ ~(tasks[j.task_id].status = PROCESSING /\ Untroubled(tasks[j.task_id]))
             \/ j.movie \notin temp_files
             \/ ~CompletedReportStep(j, TRUE)
             \/ /\ tasks'[j.task_id].status = COMPLETED
                /\ tasks'[j.task_id].processing_started_at # NotSet
                /\ tasks'[j.task_id].processing_completed_at # NotSet
                /\ Untroubled(tasks'[j.task_id])
                /\ relocation_called'
                /\ j.movie \notin temp_files']_vars

\* C15 witness: a task completed with nothing counted or recorded whose start
\* and completion times were each written once
C15_Witness ==
    \E id \in DOMAIN tasks :
        /\ tasks[id].status = COMPLETED
        /\ Untroubled(tasks[id])
        /\ tasks[id].processing_started_at = FirstWrite
        /\ tasks[id].processing_completed_at = FirstWrite

\* C16: a progress report never changes the status of a task: for a task that
\* is not processing it leaves the status alone and answers without error.
C16_ProgressKeepsStatus ==
    [][\A id \in progress_sends :
          \/ id \notin DOMAIN tasks
          \/ tasks[id].status = PROCESSING
          \/ ~send_task_progress(id)
          \/ tasks'[id].status = tasks[id].status /\ result' = Ok]_vars

\* the step delivers a report of job j to the status receiver
ReportStep(j) ==
    \/ send_task_started(j)
    \/ \E acked \in BOOLEAN, io_ok \in BOOLEAN : send_task_completed(j, acked, io_ok)
    \/ \E acked \in BOOLEAN : send_task_failed(j, acked)

\* C17: a status report whose task_id matches no row is answered 404 and
\* changes nothing: no row is created or modified, move_to_processed is not
\* invoked and the temp folder keeps its files.
C17_UnknownTaskRejected ==
    [][\A j \in jobs :
          \/ j.task_id \in DOMAIN tasks
          \/ ~ReportStep(j)
          \/ /\ result' = NotFound
             /\ tasks' = tasks
             /\ temp_files' = temp_files
             /\ ~relocation_called']_vars

\* C17 witness: a report for a deleted task has just been answered 404 while
\* the artifact of its run lies in the temp folder
C17_Witness ==
    /\ result = NotFound
    /\ temp_files # {}
    /\ tasks = << >>

\* C18: a status report for an existing task whose status value is outside the
\* known set is answered 400 and leaves the row of the task (status, attempts,
\* error, timestamps) and every other row as it was.
C18_UnknownStatusRejected ==
    [][\A id \in DOMAIN tasks :
          \/ ~receive_unknown_status(id)
          \/ /\ result' = BadRequest
             /\ tasks' = tasks
             /\ ~relocation_called']_vars

\* C18 witness: a report was just answered 400 for a task that is completed or
\* failed with its timestamps written (restart_task and the delete route answer
\* 400 only for tasks that are neither)
C18_Witness ==
    /\ result = BadRequest
    /\ \E id \in DOMAIN tasks :
           /\ tasks[id].status \in {COMPLETED, FAILED}
           /\ tasks[id].processing_completed_at # NotSet

\* C19: restart_task succeeds only for a task that is completed or failed and
\* leaves it pending with attempts 0; for a task in any other status it is
\* rejected and the table is unchanged.
C19_RestartOnlyWhenFinished ==
    [][\A id \in DOMAIN tasks :
          \/ ~restart_task(id)
          \/ IF tasks[id].status \in {COMPLETED, FAILED}
             THEN /\ result' = Ok
                  /\ tasks'[id].status = PENDING
                  /\ tasks'[id].attempts = 0
             ELSE /\ result' = BadRequest
                  /\ tasks' = tasks]_vars

\* C19 witness: a task that had completed or failed is pending with attempts 0
\* (a task created, requeued after a failure or sent back by the dispatcher is
\* pending either without a completion time or with attempts counted)
C19_Witness ==
    \E id \in DOMAIN tasks :
        /\ tasks[id].status = PENDING
        /\ tasks[id].attempts = 0
        /\ tasks[id].processing_completed_at # NotSet

\* C20: no task is removed while its status is processing, also when a
\* `processing` report is applied between the status check of the delete route
\* and its row deletion.
C20_ProcessingNeverDeleted ==
    [][\A id \in DOMAIN tasks :
          tasks[id].status = PROCESSING => id \in DOMAIN tasks']_vars

\* the task is completed, or failed with its attempts used up
Terminal(row) ==
    \/ row.status = COMPLETED
    \/ row.status = FAILED /\ row.attempts >= MAX_RETRY_ATTEMPTS

Outstanding(id) == \E j \in jobs : j.task_id = id /\ j.deliveries = 0

\* C22: a task for which the worker holds an accepted dispatch that it has not
\* reported completed or failed is not handed to the worker again.
C22_OneOutstandingDispatch ==
    [][\/ sending = 0
       \/ ~Outstanding(sending)
       \/ ~(send_task_accepted \/ send_task_answer_lost)]_vars

\* what a report of the status does to the table while notifications go out
Notified(task_id, status, temp_file, io_ok) ==
    receive_status_update(tasks, temp_files, task_id, status, temp_file, io_ok, TRUE).tasks

\* C23: a report handled while the notification fails leaves the table as the
\* same report leaves it while notifications go out; a task whose artifact was
\* relocated is completed after the step although the success message failed.
C23_NotificationFailureHarmless ==
    [][\/ telegram_ok
       \/ \A j \in jobs :
            /\ send_task_started(j) => tasks' = Notified(j.task_id, PROCESSING, NoFile, TRUE)
            /\ send_task_failed(j, TRUE) => tasks' = Notified(j.task_id, FAILED, NoFile, TRUE)
            /\ \A io \in BOOLEAN :
                   send_task_completed(j, TRUE, io) =>
                       /\ tasks' = Notified(j.task_id, COMPLETED, j.movie, io)
                       /\ relocation_called' /\ temp_files' # temp_files
                              /\ j.task_id \in DOMAIN tasks
                           => tasks'[j.task_id].status = COMPLETED]_vars

\* C23 witness: a `completed` report has just been handled with its artifact
\* relocated while the Telegram API was unreachable, and the task is completed
C23_Witness ==
    /\ ~telegram_ok
    /\ relocation_called
    /\ \E id \in DOMAIN tasks :
           tasks[id].status = COMPLETED /\ tasks[id].movie_name \notin temp_files

\* C24: a cancelled dispatch is failed once: after the cancel route has had
\* its `failed` report applied, the job of that dispatch brings no further
\* `failed` report (a second count on attempts) and no `completed` report.
C24_CancelFailsOnce ==
    [][\A j \in jobs :
          \/ j.cancelled # CancelReported
          \/ j.task_id \notin DOMAIN tasks
          \/ ~(\/ send_task_failed(j, TRUE)
               \/ \E io \in BOOLEAN : send_task_completed(j, TRUE, io))]_vars

C26_SentOnlyAfterAcceptance ==
    sending \in DOMAIN tasks => tasks[sending].status # SENT

\* C27: the reset of a shutdown sweep leaves a completed task completed, also
\* when the sweep read the task as processing before the completion was written.
C27_SweepKeepsCompleted ==
    [][\/ processing_tasks = << >>
       \/ \A id \in DOMAIN tasks :
             tasks[id].status = COMPLETED => tasks'[id].status = COMPLETED
       \/ ~worker_shutdown_reset]_vars

\* C28: processing_started_at and processing_completed_at are written once
\* each: no row carries a start or completion time written over an earlier one.
C28_TimestampsSetOnce ==
    \A id \in DOMAIN tasks :
        /\ tasks[id].processing_started_at # LaterWrite
        /\ tasks[id].processing_completed_at # LaterWrite

\* C29: the task a cycle dispatches is first among the pending ones: no task
\* left pending by the step has a strictly higher priority, or the same
\* priority and an earlier creation.
C29_HighestPriorityFirst ==
    [][\/ sending' = 0
       \/ sending' = sending
       \/ \A id \in DOMAIN tasks' :
             \/ tasks'[id].status # PENDING
             \/ /\ tasks'[id].priority <= tasks'[sending'].priority
                /\ tasks'[id].priority = tasks'[sending'].priority => sending' < id]_vars

\* C29 witness: the younger of two tasks is being delivered, since it has the
\* higher priority, while the older one waits
C29_Witness ==
    \E a, b \in DOMAIN tasks :
        /\ a < b
        /\ sending = b
        /\ tasks[b].status = SENT
        /\ tasks[a].status = PENDING
        /\ tasks[b].priority > tasks[a].priority

\* C30: a call of process_pending_tasks opens at most max_concurrent_tasks
\* deliveries, all taken from the batch it read when it started, and counts a
\* delivery exactly when it leaves the task sent: the value it returns is the
\* number of tasks it left sent.
C30_BatchBoundAndCount ==
    [][/\ sending = 0 =>
             /\ Len(pending_batch') + (IF sending' # 0 THEN 1 ELSE 0)
                    <= MAX_CONCURRENT_TASKS
             /\ tasks_sent' = 0
       /\ sending # 0 /\ sending' # sending =>
             /\ sending' # 0 =>
                    /\ pending_batch # << >>
                    /\ sending' = Head(pending_batch)
                    /\ pending_batch' = Tail(pending_batch)
             /\ sending' = 0 => pending_batch = << >>
             /\ tasks_sent' = tasks_sent +
                    (IF sending \in DOMAIN tasks' /\ tasks'[sending].status = SENT
                     THEN 1 ELSE 0)
       /\ sending # 0 /\ sending' = sending =>
             pending_batch' = pending_batch /\ tasks_sent' = tasks_sent]_vars

\* C30 witness: a call has just returned 1 with the task it delivered sent,
\* and has left the other pending task for a later cycle
C30_Witness ==
    /\ tasks_sent = 1
    /\ sending = 0
    /\ \E a, b \in DOMAIN tasks : tasks[a].status = SENT /\ tasks[b].status = PENDING

\* C31: in every reachable state the attempts of every task is at most the
\* configured maximum (3), whatever dispatch failures, `failed` reports and
\* retry cycles the task has met.
C31_AttemptsWithinMaximum ==
    \A id \in DOMAIN tasks : tasks[id].attempts <= MAX_RETRY_ATTEMPTS

\* a step of the watcher that ends its cycle: retry_failed_tasks has run
CycleEnds ==
    /\ sending' = 0
    /\ \/ \E found \in SUBSET Movies : run_single_cycle(found, {})
       \/ send_task_accepted
       \/ \E busy \in BOOLEAN : send_task_rejected(busy)

\* C32: the retry cycle that retry_failed_tasks performs on a failed task with
\* attempts left (failed, retrying, pending) raises its attempts by exactly 1.
C32_RetryAddsOne ==
    [][\A id \in DOMAIN tasks :
          \/ ~(tasks[id].status = FAILED /\ tasks[id].attempts < MAX_RETRY_ATTEMPTS)
          \/ id = sending
          \/ ~CycleEnds
          \/ tasks'[id].attempts = tasks[id].attempts + 1]_vars

\* C33: `retrying` is never observed at rest: no task has status retrying in a
\* state between the steps of the watcher and of the status receiver (each of
\* them writes retrying and pending within the one step), also after a cycle in
\* whose retry loop increment_task_attempts raised.
C33_RetryingNeverAtRest ==
    \A id \in DOMAIN tasks : tasks[id].status # RETRYING

\* C34: a task that is dispatched again has the error of its earlier failure
\* cleared: no task in `sent` or `processing` carries an error_message.
C34_NoStaleErrorInFlight ==
    \A id \in DOMAIN tasks :
        tasks[id].status \in {SENT, PROCESSING} => tasks[id].error_message = NoError

\* the worker answers busy to attempt k of the call, every earlier attempt of
\* the call having failed otherwise
FirstBusy(answers, k) ==
    /\ answers[k] = Busy429
    /\ \A i \in 1..(k - 1) : answers[i] \notin {Accepted200, Busy429}

\* C35: when the worker answers a delivery attempt with busy (429), send_task
\* returns False with that attempt as its last, and the dispatcher returns the
\* task to pending with attempts raised by no more than 1; no job is queued.
C35_BusyIsNotRetried ==
    [][\/ sending = 0
       \/ sending' = sending
       \/ ~is_processing
       \/ \A answers \in AnswerSeqs : \A k \in 1..MAC_CLIENT_RETRY_ATTEMPTS :
             \/ ~FirstBusy(answers, k)
             \/ /\ send_task(answers) = [success |-> FALSE, attempts |-> k]
                /\ \/ /\ tasks'[sending].status = PENDING
                      /\ tasks'[sending].attempts <= tasks[sending].attempts + 1
                      /\ jobs' = jobs
                   \/ ~send_task_call(answers)]_vars

\* C35 witness: a send_task call has just ended on a busy answer while the
\* processor runs another task, and the task it carried is pending with the
\* dispatch failure counted
C35_Witness ==
    /\ result = Busy429
    /\ is_processing
    /\ \E id \in DOMAIN tasks :
           /\ id # current_task
           /\ tasks[id].status = PENDING
           /\ tasks[id].attempts = 1

\* the step delivers the final report of job j and the answer comes back or not
FinalReportStep(j, acked) ==
    \/ send_task_failed(j, acked)
    \/ \E io_ok \in BOOLEAN : send_task_completed(j, acked, io_ok)

\* C36: the worker's status sender does not send again a report that the NAS
\* rejected with a client error (404 for an unknown task): the call ends with
\* that attempt; a report whose answers are lost is sent retry_attempts times at
\* most, and the call ends after the last of them.
C36_RejectedReportNotRetried ==
    [][\A j \in jobs :
          \/ j.phase # "terminal"
          \/ /\ j.deliveries < NAS_CLIENT_RETRY_ATTEMPTS
             /\ \/ ~(result' \in {NotFound, BadRequest})
                \/ jobs' = jobs \ {j}
                \/ ~FinalReportStep(j, TRUE)
             /\ \/ j.deliveries + 1 < NAS_CLIENT_RETRY_ATTEMPTS
                \/ jobs' = jobs \ {j}
                \/ ~(\E acked \in BOOLEAN : FinalReportStep(j, acked))]_vars

\* C36 witness: the final report of a task that was deleted meanwhile has just
\* been answered 404 on its first attempt, and the worker holds nothing to send
C36_Witness ==
    /\ result = NotFound
    /\ jobs = {}
    /\ temp_files = {}
    /\ tasks = << >>

\* the background jobs that are inside process_task
Executing == {j \in jobs : j.phase = "running"}

\* C37: the worker never executes two tasks at the same time: in every state
\* at most one execution of process_task is in progress.
C37_OneExecutionAtATime == Cardinality(Executing) <= 1

\* C38: after every execution of process_task, whether it succeeded, failed or
\* was cancelled, the worker is idle again (is_processing false, no
\* current_task); the worker is busy only while an execution is in progress, so
\* no dispatch is answered busy because of a finished task.
C38_IdleAfterEveryExecution ==
    [][/\ is_processing' => Executing' # {}
       /\ \A j \in jobs :
             \/ j.phase # "running"
             \/ ~is_processing' /\ current_task' = 0
             \/ ~(\E ok \in BOOLEAN : process_task_finish(j, ok))]_vars

\* C38 witness: an execution that was cancelled has returned and the worker is
\* idle, its job still having its reports to send
C38_Witness ==
    /\ ~is_processing
    /\ current_task = 0
    /\ \E j \in jobs : /\ j.cancelled # NotCancelled
                       /\ j.phase = "started"
                       /\ ~j.success

\* the step is a call of the worker that sends a terminal report of job j:
\* the cancel route's `failed`, or the lifecycle's `completed` or `failed`,
\* delivered or given up
TerminalReportCall(j) ==
    \/ \E delivered \in BOOLEAN : cancel_task(j, delivered)
    \/ send_task_failed(j, TRUE)
    \/ \E io_ok \in BOOLEAN : send_task_completed(j, TRUE, io_ok)
    \/ j.phase = "terminal" /\ give_up(j)

\* C39: for every task it accepted the worker sends one terminal report and
\* sends it after the `processing` report, also when the task is cancelled:
\* a terminal report of a job is sent when the job's `processing` report has
\* been sent and no terminal report of it was sent before.
C39_OneTerminalReportAfterProcessing ==
    [][\A j \in jobs :
          \/ j.phase = "terminal" /\ j.cancelled = NotCancelled
          \/ ~TerminalReportCall(j)]_vars

\* what send_task returns for every sequence of answers
SendTaskReturns == [answers \in AnswerSeqs |-> send_task(answers)]

\* send_task makes between one and retry_attempts attempts, returns True
\* exactly when one of the attempts it made was answered 200, and returns False
\* after retry_attempts attempts when none of them was answered 200 or busy
SendTaskIsBounded ==
    \A answers \in AnswerSeqs :
        LET sent == SendTaskReturns[answers]
        IN  /\ sent.attempts \in 1..MAC_CLIENT_RETRY_ATTEMPTS
            /\ sent.success <=> \E i \in 1..sent.attempts : answers[i] = Accepted200
            /\ (\A i \in 1..MAC_CLIENT_RETRY_ATTEMPTS :
                   answers[i] \in {ServerError, Unavailable})
               => ~sent.success /\ sent.attempts = MAC_CLIENT_RETRY_ATTEMPTS

\* C40: send_task ends after at most retry_attempts delivery attempts and
\* returns True exactly when one of the attempts it made was answered 200;
\* when retry_attempts attempts failed it returns False, and the dispatcher
\* goes on: the task is left `sent` exactly when the call returned True.
C40_SendTaskTerminates ==
    [][\/ sending = 0
       \/ sending' = sending
       \/ /\ SendTaskIsBounded
          /\ \A answers \in AnswerSeqs :
                \/ SendTaskReturns[answers].success <=> tasks'[sending].status = SENT
                \/ ~send_task_call(answers)]_vars

\* C40 witness: a send_task call whose attempts all failed, the last one with
\* a server error, has returned False and the task waits for the next cycle
C40_Witness ==
    /\ result = ServerError
    /\ sending = 0
    /\ jobs = {}
    /\ \E id \in DOMAIN tasks : tasks[id].status = PENDING /\ tasks[id].attempts = 1
=============================================================================
